---------------------------- MODULE Spec2Model ----------------------------
(***************************************************************************)
(* Batch recommendation pipeline of content-reco/content-recommendation:   *)
(* create_recommendation.py (__main__), embeddings.generate_embeddings,    *)
(* recommender.calculate_similarity and the BigQuery helpers of            *)
(* utils/bigquery_utils.py.                                                *)
(*                                                                         *)
(* One behaviour is a sequence of batch runs (process starts) against one  *)
(* destination table.  Every remote call (BigQuery, embedding provider)    *)
(* may succeed or fail; the model follows what the code does in each case. *)
(***************************************************************************)
EXTENDS Integers, Sequences, FiniteSets, TLC

(***************************************************************************)
(* Bounds of the model.                                                    *)
(***************************************************************************)
MaxRuns == 2
MaxRetriesCfg == 2
MaxTexts == 3
MaxRequests == 3

(***************************************************************************)
(* Source tables.  user_id / media_id are unique within their table; the   *)
(* embedding input text of an entity is determined by its row, so a text   *)
(* is named by the identifier of the row it was prepared from.             *)
(***************************************************************************)
UserIds == <<"u1", "u2">>
MediaIds == <<"m1", "m2">>

\* texts of a direct call of generate_embeddings
CallTexts == <<"m1", "u1", "m2", "u2", "m3">>

None == "None"

(***************************************************************************)
(* The embedding provider is a function of the text.  The vectors have     *)
(* integer norms and integer pairwise distances, so cosine similarity      *)
(* (kept in units of 1/25) and Euclidean distance are exact integers.      *)
(* Distinct texts embed to distinct vectors.  u2 embeds to the zero        *)
(* vector, equidistant from all media vectors and of cosine 0 to each:     *)
(* ties between distinct vectors.                                          *)
(***************************************************************************)
ProviderEmbedding(text) ==
    CASE text = "u1" -> <<3, 4>>
      [] text = "u2" -> <<0, 0>>
      [] text = "m1" -> <<3, -4>>
      [] text = "m2" -> <<-3, 4>>
      [] OTHER -> <<-3, -4>>

prepare_user_text_for_embedding(user_id) == user_id
prepare_media_text_for_embedding(media_id) == media_id

(***************************************************************************)
(* Python built-ins used by the code.                                      *)
(***************************************************************************)
Min(a, b) == IF a <= b THEN a ELSE b
Max(a, b) == IF a >= b THEN a ELSE b

\* seq[:n] (n may be negative: all but the last -n elements)
PySlicePrefix(seq, n) ==
    IF n >= 0 THEN SubSeq(seq, 1, Min(n, Len(seq)))
    ELSE SubSeq(seq, 1, Max(0, Len(seq) + n))

\* Variant of PySlice: the end index is included (seq[i:i+k+1]).
MutPySliceEndIncluded(seq, i, k) == SubSeq(seq, i + 1, Min(i + k + 1, Len(seq)))

\* seq[i:i+k] with 0-based i
PySlice(seq, i, k) == SubSeq(seq, i + 1, Min(i + k, Len(seq)))

\* truth value of a list
Truthy(v) == Len(v) > 0

\* the set of elements of a sequence
Range(seq) == {seq[j] : j \in DOMAIN seq}

\* dict(zip(keys, values)) for unique keys, in insertion order
DictZip(keys, values) ==
    [j \in 1..Min(Len(keys), Len(values)) |-> [id |-> keys[j], emb |-> values[j]]]

\* Variant of InsertDesc: an element is placed before the elements of equal
\* score (the order of ties is reversed, as in sorted(items)[::-1]).
RECURSIVE MutInsertDescTiesReversed(_, _)
MutInsertDescTiesReversed(sorted, x) ==
    IF sorted = <<>> THEN <<x>>
    ELSE IF sorted[Len(sorted)].score > x.score THEN Append(sorted, x)
    ELSE Append(MutInsertDescTiesReversed(SubSeq(sorted, 1, Len(sorted) - 1), x),
                sorted[Len(sorted)])

\* sorted(items, key=score, reverse=True): stable, descending
RECURSIVE InsertDesc(_, _)
InsertDesc(sorted, x) ==
    IF sorted = <<>> THEN <<x>>
    ELSE IF sorted[Len(sorted)].score >= x.score THEN Append(sorted, x)
    ELSE Append(InsertDesc(SubSeq(sorted, 1, Len(sorted) - 1), x), sorted[Len(sorted)])

\* Variant of SortedReverse: reverse=True is dropped (ascending order).
RECURSIVE MutInsertAsc(_, _)
MutInsertAsc(sorted, x) ==
    IF sorted = <<>> THEN <<x>>
    ELSE IF sorted[Len(sorted)].score <= x.score THEN Append(sorted, x)
    ELSE Append(MutInsertAsc(SubSeq(sorted, 1, Len(sorted) - 1), x), sorted[Len(sorted)])

RECURSIVE MutSortedAscending(_)
MutSortedAscending(items) ==
    IF items = <<>> THEN <<>>
    ELSE MutInsertAsc(MutSortedAscending(SubSeq(items, 1, Len(items) - 1)),
                      items[Len(items)])

RECURSIVE SortedReverse(_)
SortedReverse(items) ==
    IF items = <<>> THEN <<>>
    ELSE InsertDesc(SortedReverse(SubSeq(items, 1, Len(items) - 1)), items[Len(items)])

(***************************************************************************)
(* recommender.calculate_similarity                                        *)
(***************************************************************************)
Dot(a, b) == a[1] * b[1] + a[2] * b[2]
ISqrt(n) == CHOOSE r \in 0..n : r * r <= n /\ (r + 1) * (r + 1) > n
Norm(a) == ISqrt(Dot(a, a))

\* sklearn cosine_similarity, in units of 1/25; a zero vector scores 0
CosineSimilarity(u, m) ==
    IF Norm(u) = 0 \/ Norm(m) = 0 THEN 0
    ELSE (25 * Dot(u, m)) \div (Norm(u) * Norm(m))

\* sklearn euclidean_distances, in units of 1/25
EuclideanDistance(u, m) ==
    25 * ISqrt((u[1] - m[1]) * (u[1] - m[1]) + (u[2] - m[2]) * (u[2] - m[2]))

SupportedMetric(metric) == metric \in {"cosine", "euclidean"}

\* `raise ValueError("Unsupported similarity metric")`
ValueError == "ValueError"

\* Variant of calculate_similarity: an unknown metric name is scored as cosine.
MutCalculateSimilarityDefault(user_embedding, media_embeddings, metric) ==
    IF metric = "euclidean"
    THEN [raised |-> None,
          similarities |-> [j \in 1..Len(media_embeddings) |->
              0 - EuclideanDistance(user_embedding, media_embeddings[j])]]
    ELSE [raised |-> None,
          similarities |-> [j \in 1..Len(media_embeddings) |->
              CosineSimilarity(user_embedding, media_embeddings[j])]]

\* Variant of calculate_similarity: the euclidean distance is not negated.
MutCalculateSimilarityNotNegated(user_embedding, media_embeddings, metric) ==
    IF metric = "cosine"
    THEN [raised |-> None,
          similarities |-> [j \in 1..Len(media_embeddings) |->
              CosineSimilarity(user_embedding, media_embeddings[j])]]
    ELSE IF metric = "euclidean"
    THEN [raised |-> None,
          similarities |-> [j \in 1..Len(media_embeddings) |->
              EuclideanDistance(user_embedding, media_embeddings[j])]]
    ELSE [raised |-> ValueError, similarities |-> <<>>]

\* Variant of calculate_similarity: the scores are returned in the reverse of
\* the candidate order.
MutCalculateSimilarityReversed(user_embedding, media_embeddings, metric) ==
    LET n == Len(media_embeddings)
    IN  IF metric = "cosine"
        THEN [raised |-> None,
              similarities |-> [j \in 1..n |->
                  CosineSimilarity(user_embedding, media_embeddings[n + 1 - j])]]
        ELSE IF metric = "euclidean"
        THEN [raised |-> None,
              similarities |-> [j \in 1..n |->
                  0 - EuclideanDistance(user_embedding, media_embeddings[n + 1 - j])]]
        ELSE [raised |-> ValueError, similarities |-> <<>>]

\* the outcome of a call: the scores returned, or the exception raised (then
\* nothing is returned)
calculate_similarity(user_embedding, media_embeddings, metric) ==
    IF metric = "cosine"
    THEN [raised |-> None,
          similarities |-> [j \in 1..Len(media_embeddings) |->
              CosineSimilarity(user_embedding, media_embeddings[j])]]
    ELSE IF metric = "euclidean"
    THEN [raised |-> None,
          similarities |-> [j \in 1..Len(media_embeddings) |->
              0 - EuclideanDistance(user_embedding, media_embeddings[j])]]
    ELSE [raised |-> ValueError, similarities |-> <<>>]


(***************************************************************************)
(* config.yaml, parsed at process start.  The file is the same for all     *)
(* the runs of one behaviour.                                              *)
(***************************************************************************)
TopNs == {-1, 0, 1, 3}
BatchSizes == {1, 2}
Metrics == {"cosine", "euclidean", "manhattan"}
Configs ==
    [top_n_to_store : TopNs, max_retries : 0..MaxRetriesCfg,
     batch_size : BatchSizes, similarity_metric : Metrics]

(***************************************************************************)
(* State.                                                                  *)
(***************************************************************************)
VARIABLES
    pc,                    \* position of the running process in __main__
    cfg,                   \* config of the running process
    sim,                   \* arguments and outcome of a direct recommender.py call
    prev,                  \* history: what the last completed process ranked
    web,                   \* the concierge web app: module state and requests
    now,                   \* the warehouse clock: one tick per process start
    table,                 \* the recommendations table: [exists, rows]
    users_df, media_df,    \* fetched id columns, or None
    gen,                   \* locals of the running generate_embeddings call
    user_embeddings_map, media_embeddings_map,
    current_timestamp,
    all_recommendations_to_store,
    uidx,                  \* position of the per-user loop
    out,                   \* messages printed by the running process
    result                 \* how the last process ended

vars == <<pc, cfg, sim, prev, web, now, table, users_df, media_df, gen, user_embeddings_map,
          media_embeddings_map, current_timestamp, all_recommendations_to_store,
          uidx, out, result>>

\* 2**k
RECURSIVE Pow2(_)
Pow2(k) == IF k <= 0 THEN 1 ELSE 2 * Pow2(k - 1)

\* locals of generate_embeddings at entry (embeddings.py:24-36 and the first
\* iteration of the for loop, lines 37-40).  Besides the locals, the record
\* keeps what the call has done so far: calls (client.predict calls for the
\* current chunk), sleeps (the time.sleep delays of the current chunk, in
\* seconds), batches (the chunks formed by the for loop) and failed (the
\* start indices of the chunks left without success) and total (the calls of
\* client.predict since entry, counted for a direct call of the function) and
\* novalues (the positions of the texts whose prediction carried no values).
GenEntry(texts) ==
    [texts |-> texts, i |-> 0, retries |-> 0, success |-> FALSE,
     embeddings |-> <<>>, calls |-> 0, sleeps |-> <<>>,
     batches |-> IF texts = <<>> THEN <<>>
                 ELSE <<PySlice(texts, 0, cfg.batch_size)>>,
     failed |-> {}, total |-> 0, novalues |-> {}]

\* the web app is not running
NoWeb == [_created_sessions |-> {}, create_calls |-> <<>>, req |-> <<>>]

\* history of the processes, kept when prev.tracked: the embedding maps and
\* the rows of the last process that ended as completed
NoPrev(tracked) ==
    [tracked |-> tracked, completed |-> FALSE, user_embeddings_map |-> <<>>,
     media_embeddings_map |-> <<>>, rows |-> <<>>]

NoGen == GenEntry(<<>>)

Init ==
    /\ pc = "idle"
    /\ cfg \in Configs
    /\ sim = None
    /\ prev = NoPrev(FALSE)
    /\ web = NoWeb
    /\ now = 0
    /\ table = [exists |-> FALSE, rows |-> <<>>]
    /\ users_df = None
    /\ media_df = None
    /\ gen = NoGen
    /\ user_embeddings_map = <<>>
    /\ media_embeddings_map = <<>>
    /\ current_timestamp = None
    /\ all_recommendations_to_store = <<>>
    /\ uidx = 0
    /\ out = {}
    /\ result = "none"

RecordPrev ==
    prev' = IF prev.tracked /\ result = "completed"
            THEN [tracked |-> TRUE, completed |-> TRUE,
                  user_embeddings_map |-> user_embeddings_map,
                  media_embeddings_map |-> media_embeddings_map,
                  rows |-> all_recommendations_to_store]
            ELSE prev

\* values of the process-local variables of a fresh process
FreshProcess ==
    /\ users_df' = None
    /\ media_df' = None
    /\ gen' = NoGen
    /\ user_embeddings_map' = <<>>
    /\ media_embeddings_map' = <<>>
    /\ current_timestamp' = None
    /\ all_recommendations_to_store' = <<>>
    /\ uidx' = 0

\* the process ends: exit() (status 0), normal end (status 0) or an uncaught
\* exception (status 1)
Ends(how) ==
    /\ pc' = "idle"
    /\ result' = how

\* the exit status of a process that ended: exit() without an argument and
\* the end of the script give 0, an uncaught exception gives 1
ExitStatus(how) == IF how = "raised" THEN 1 ELSE 0

(***************************************************************************)
(* create_recommendation.py __main__, lines 42-57                          *)
(***************************************************************************)
StartRun ==
    /\ pc = "idle"
    /\ now < MaxRuns
    /\ now' = now + 1
    /\ pc' = "delete"
    /\ result' = "none"
    /\ out' = {}
    /\ FreshProcess
    /\ RecordPrev
    /\ UNCHANGED <<cfg, web, sim, table>>

StartRunNoEnv ==
    /\ pc = "idle"
    /\ now < MaxRuns
    /\ now' = now + 1
    /\ out' = {"Please set the PROJECT_ID and LOCATION"}
    /\ Ends("exit")
    /\ FreshProcess
    /\ RecordPrev
    /\ UNCHANGED <<cfg, web, sim, table>>

StartRunNoClient ==
    /\ pc = "idle"
    /\ now < MaxRuns
    /\ now' = now + 1
    /\ out' = {"Error authenticating to BigQuery"}
    /\ Ends("exit")
    /\ FreshProcess
    /\ RecordPrev
    /\ UNCHANGED <<cfg, web, sim, table>>

\* Variant of DeleteTableOk: the table is only marked for deletion here and is
\* dropped later, when the rows are written (the inputs are read first).
MutDeleteTableOkDeferred ==
    /\ pc = "delete"
    /\ table.exists
    /\ out' = out \cup {"Table deleted"}
    /\ pc' = "create"
    /\ UNCHANGED <<cfg, web, prev, sim, now, table, users_df, media_df, gen,
                   user_embeddings_map, media_embeddings_map, current_timestamp,
                   all_recommendations_to_store, uidx, result>>

\* delete_table: check_table_exists is True and client.delete_table succeeds
DeleteTableOk ==
    /\ pc = "delete"
    /\ table.exists
    /\ table' = [exists |-> FALSE, rows |-> <<>>]
    /\ out' = out \cup {"Table deleted"}
    /\ pc' = "create"
    /\ UNCHANGED <<cfg, web, prev, sim, now, users_df, media_df, gen, user_embeddings_map,
                   media_embeddings_map, current_timestamp,
                   all_recommendations_to_store, uidx, result>>

\* delete_table: check_table_exists is True and client.delete_table raises
DeleteTableError ==
    /\ pc = "delete"
    /\ table.exists
    /\ out' = out \cup {"Error deleting table"}
    /\ pc' = "create"
    /\ UNCHANGED <<cfg, web, prev, sim, now, table, users_df, media_df, gen, user_embeddings_map,
                   media_embeddings_map, current_timestamp,
                   all_recommendations_to_store, uidx, result>>

\* delete_table: check_table_exists is False (no table, or get_table raised)
DeleteTableNotFound ==
    /\ pc = "delete"
    /\ out' = out \cup {"Table does not exist"}
    /\ pc' = "create"
    /\ UNCHANGED <<cfg, web, prev, sim, now, table, users_df, media_df, gen, user_embeddings_map,
                   media_embeddings_map, current_timestamp,
                   all_recommendations_to_store, uidx, result>>

\* create_table: check_table_exists is False and client.create_table succeeds
CreateTableOk ==
    /\ pc = "create"
    /\ ~table.exists
    /\ table' = [exists |-> TRUE, rows |-> <<>>]
    /\ out' = out \cup {"Table created"}
    /\ pc' = "fetch_users"
    /\ UNCHANGED <<cfg, web, prev, sim, now, users_df, media_df, gen, user_embeddings_map,
                   media_embeddings_map, current_timestamp,
                   all_recommendations_to_store, uidx, result>>

\* create_table: check_table_exists is False and client.create_table raises
\* (the table exists after all, or the call fails); None is returned and ignored
CreateTableError ==
    /\ pc = "create"
    /\ out' = out \cup {"Error creating table"}
    /\ pc' = "fetch_users"
    /\ UNCHANGED <<cfg, web, prev, sim, now, table, users_df, media_df, gen, user_embeddings_map,
                   media_embeddings_map, current_timestamp,
                   all_recommendations_to_store, uidx, result>>

\* create_table: check_table_exists is True, client.get_table returns
CreateTableExists ==
    /\ pc = "create"
    /\ table.exists
    /\ out' = out \cup {"Table already exists"}
    /\ pc' = "fetch_users"
    /\ UNCHANGED <<cfg, web, prev, sim, now, table, users_df, media_df, gen, user_embeddings_map,
                   media_embeddings_map, current_timestamp,
                   all_recommendations_to_store, uidx, result>>

\* create_table: check_table_exists is True, the unguarded client.get_table raises
CreateTableRaises ==
    /\ pc = "create"
    /\ table.exists
    /\ out' = out \cup {"Table already exists"}
    /\ Ends("raised")
    /\ UNCHANGED <<cfg, web, prev, sim, now, table, users_df, media_df, gen, user_embeddings_map,
                   media_embeddings_map, current_timestamp,
                   all_recommendations_to_store, uidx>>

(***************************************************************************)
(* __main__, lines 59-66: fetch_data_from_bigquery returns a frame or None *)
(***************************************************************************)
FetchUsers(ok) ==
    /\ pc = "fetch_users"
    /\ users_df' = IF ok THEN UserIds ELSE None
    /\ out' = out \cup {IF ok THEN "Successfully fetched users"
                              ELSE "Error fetching data from users"}
    /\ pc' = "fetch_media"
    /\ UNCHANGED <<cfg, web, prev, sim, now, table, media_df, gen, user_embeddings_map,
                   media_embeddings_map, current_timestamp,
                   all_recommendations_to_store, uidx, result>>

\* the media fetch, then `if users_df is None or media_df is None: exit()`,
\* then lines 68-76: the user texts are prepared and generate_embeddings entered
FetchMedia(ok) ==
    /\ pc = "fetch_media"
    /\ media_df' = IF ok THEN MediaIds ELSE None
    /\ out' = out \cup {IF ok THEN "Successfully fetched media"
                              ELSE "Error fetching data from media"}
    /\ IF users_df = None \/ ~ok
       THEN Ends("exit") /\ UNCHANGED gen
       ELSE /\ pc' = "embed_users"
            /\ gen' = GenEntry([j \in 1..Len(users_df) |->
                                   prepare_user_text_for_embedding(users_df[j])])
            /\ UNCHANGED result
    /\ UNCHANGED <<cfg, web, prev, sim, now, table, users_df, user_embeddings_map,
                   media_embeddings_map, current_timestamp,
                   all_recommendations_to_store, uidx>>

(***************************************************************************)
(* embeddings.generate_embeddings, lines 36-60                             *)
(***************************************************************************)
InEmbed == pc \in {"embed_users", "embed_media", "embed_call"}

\* the chunk of the current for-iteration: instances[i:i + batch_size]
Batch == PySlice(gen.texts, gen.i, cfg.batch_size)

\* Variant of WhileCondition: max_retries counts the retries after a first
\* attempt (`retries <= max_retries`).
MutWhileConditionInclusive == ~gen.success /\ gen.retries <= cfg.max_retries

\* `while not success and retries < max_retries`
WhileCondition == ~gen.success /\ gen.retries < cfg.max_retries

\* Variant of AppendedValues: the vectors of a response are taken last first.
MutAppendedValuesReversed(batch, hasValues) ==
    LET keep == SelectSeq([j \in 1..Len(batch) |-> Len(batch) + 1 - j],
                          LAMBDA j : j \in hasValues)
    IN  [k \in 1..Len(keep) |-> ProviderEmbedding(batch[keep[k]])]

\* lines 48-51: the vectors appended for a response; hasValues is the set of
\* positions of the chunk whose prediction carries embedding values
AppendedValues(batch, hasValues) ==
    LET keep == SelectSeq([j \in 1..Len(batch) |-> j], LAMBDA j : j \in hasValues)
    IN  [k \in 1..Len(keep) |-> ProviderEmbedding(batch[keep[k]])]

\* the call counter of a direct call after one more client.predict
CountCall == IF pc = "embed_call" THEN gen.total + 1 ELSE gen.total

\* client.predict returns (lines 43-52)
EmbedPredictOk(hasValues) ==
    /\ InEmbed
    /\ gen.i < Len(gen.texts)
    /\ WhileCondition
    /\ gen' = [gen EXCEPT !.embeddings = @ \o AppendedValues(Batch, hasValues),
                          !.success = TRUE,
                          !.calls = @ + 1, !.total = CountCall,
                          !.novalues = @ \cup {gen.i + j :
                                                 j \in (1..Len(Batch)) \ hasValues}]
    /\ UNCHANGED <<pc, cfg, web, prev, sim, now, table, users_df, media_df, user_embeddings_map,
                   media_embeddings_map, current_timestamp,
                   all_recommendations_to_store, uidx, out, result>>

\* Variant of EmbedPredictFail: the vector of the chunk's first text is
\* appended before the attempt fails.
MutEmbedPredictFailPartial ==
    /\ InEmbed
    /\ gen.i < Len(gen.texts)
    /\ WhileCondition
    /\ gen' = [gen EXCEPT !.retries = @ + 1, !.calls = @ + 1,
                          !.total = CountCall,
                          !.sleeps = Append(@, Pow2(gen.retries + 1)),
                          !.embeddings = Append(@, ProviderEmbedding(Batch[1]))]
    /\ UNCHANGED <<pc, cfg, web, prev, sim, now, table, users_df, media_df, user_embeddings_map,
                   media_embeddings_map, current_timestamp,
                   all_recommendations_to_store, uidx, out, result>>

\* client.predict raises (lines 53-56): retries += 1, sleep(2**retries)
EmbedPredictFail ==
    /\ InEmbed
    /\ gen.i < Len(gen.texts)
    /\ WhileCondition
    /\ gen' = [gen EXCEPT !.retries = @ + 1, !.calls = @ + 1,
                          !.total = CountCall,
                          !.sleeps = Append(@, Pow2(gen.retries + 1))]
    /\ UNCHANGED <<pc, cfg, web, prev, sim, now, table, users_df, media_df, user_embeddings_map,
                   media_embeddings_map, current_timestamp,
                   all_recommendations_to_store, uidx, out, result>>

\* Variant of EmbedChunkEnd: the for loop is left when a chunk has exhausted its
\* attempts (no later chunk is tried).
MutEmbedChunkEndBreaks ==
    /\ InEmbed
    /\ gen.i < Len(gen.texts)
    /\ ~WhileCondition
    /\ gen' = [gen EXCEPT !.i = IF gen.success THEN @ + cfg.batch_size
                                 ELSE Len(gen.texts),
                          !.retries = 0,
                          !.success = FALSE, !.calls = 0, !.sleeps = <<>>,
                          !.batches =
                              IF gen.success /\ gen.i + cfg.batch_size < Len(gen.texts)
                              THEN Append(@, PySlice(gen.texts,
                                                     gen.i + cfg.batch_size,
                                                     cfg.batch_size))
                              ELSE @,
                          !.failed = IF gen.success THEN @ ELSE @ \cup {gen.i}]
    /\ UNCHANGED <<pc, cfg, web, prev, sim, now, table, users_df, media_df, user_embeddings_map,
                   media_embeddings_map, current_timestamp,
                   all_recommendations_to_store, uidx, out, result>>

\* Variant of EmbedChunkEnd: `retries = 0` is not executed for the next chunk
\* (one retry budget for the whole call).
MutEmbedChunkEndKeepsRetries ==
    /\ InEmbed
    /\ gen.i < Len(gen.texts)
    /\ ~WhileCondition
    /\ gen' = [gen EXCEPT !.i = @ + cfg.batch_size,
                          !.success = FALSE, !.calls = 0, !.sleeps = <<>>,
                          !.batches =
                              IF gen.i + cfg.batch_size < Len(gen.texts)
                              THEN Append(@, PySlice(gen.texts,
                                                     gen.i + cfg.batch_size,
                                                     cfg.batch_size))
                              ELSE @,
                          !.failed = IF gen.success THEN @ ELSE @ \cup {gen.i}]
    /\ UNCHANGED <<pc, cfg, web, prev, sim, now, table, users_df, media_df, user_embeddings_map,
                   media_embeddings_map, current_timestamp,
                   all_recommendations_to_store, uidx, out, result>>

\* the while loop is left (lines 57-58) and the for loop steps to the next chunk
EmbedChunkEnd ==
    /\ InEmbed
    /\ gen.i < Len(gen.texts)
    /\ ~WhileCondition
    /\ gen' = [gen EXCEPT !.i = @ + cfg.batch_size, !.retries = 0,
                          !.success = FALSE, !.calls = 0, !.sleeps = <<>>,
                          !.batches =
                              IF gen.i + cfg.batch_size < Len(gen.texts)
                              THEN Append(@, PySlice(gen.texts,
                                                     gen.i + cfg.batch_size,
                                                     cfg.batch_size))
                              ELSE @,
                          !.failed = IF gen.success THEN @ ELSE @ \cup {gen.i}]
    /\ UNCHANGED <<pc, cfg, web, prev, sim, now, table, users_df, media_df, user_embeddings_map,
                   media_embeddings_map, current_timestamp,
                   all_recommendations_to_store, uidx, out, result>>

\* `return embeddings` to __main__ line 77 (then lines 80-88) or line 89
EmbedReturn ==
    /\ InEmbed
    /\ gen.i >= Len(gen.texts)
    /\ pc # "embed_call"
    /\ IF pc = "embed_users"
       THEN /\ user_embeddings_map' = DictZip(users_df, gen.embeddings)
            /\ gen' = GenEntry([j \in 1..Len(media_df) |->
                                   prepare_media_text_for_embedding(media_df[j])])
            /\ pc' = "embed_media"
            /\ UNCHANGED media_embeddings_map
       ELSE /\ media_embeddings_map' = DictZip(media_df, gen.embeddings)
            /\ gen' = NoGen
            /\ pc' = "timestamp"
            /\ UNCHANGED user_embeddings_map
    /\ UNCHANGED <<cfg, web, prev, sim, now, table, users_df, media_df, current_timestamp,
                   all_recommendations_to_store, uidx, out, result>>

(***************************************************************************)
(* __main__, lines 92-117                                                  *)
(***************************************************************************)
\* the value SELECT CURRENT_TIMESTAMP() returns when it is evaluated now: the
\* clock of the warehouse advances from process to process and along the
\* per-user loop of one process
CURRENT_TIMESTAMP == [run |-> now, tick |-> uidx]

\* line 94: bq_client.query("SELECT CURRENT_TIMESTAMP()")
QueryTimestamp ==
    /\ pc = "timestamp"
    /\ current_timestamp' = CURRENT_TIMESTAMP
    /\ uidx' = 1
    /\ pc' = "rank"
    /\ UNCHANGED <<cfg, web, prev, sim, now, table, users_df, media_df, gen, user_embeddings_map,
                   media_embeddings_map, all_recommendations_to_store, out, result>>

QueryTimestampRaises ==
    /\ pc = "timestamp"
    /\ Ends("raised")
    /\ UNCHANGED <<cfg, web, prev, sim, now, table, users_df, media_df, gen, user_embeddings_map,
                   media_embeddings_map, current_timestamp,
                   all_recommendations_to_store, uidx, out>>

\* line 99-100: the media with an embedding, in map order
ValidMedia == SelectSeq(media_embeddings_map, LAMBDA e : Truthy(e.emb))

\* Variant of TopN: the candidates are taken in an order that differs from
\* process to process (as the iteration order of a set of strings does).
MutTopNProcessOrder(user_embedding, valid_media, metric, top_n) ==
    LET candidates ==
            IF now % 2 = 0
            THEN [j \in 1..Len(valid_media) |->
                      valid_media[Len(valid_media) + 1 - j]]
            ELSE valid_media
        similarities ==
            calculate_similarity(user_embedding,
                                 [j \in 1..Len(candidates) |-> candidates[j].emb],
                                 metric).similarities
        media_with_similarity ==
            [j \in 1..Len(candidates) |->
                 [media_id |-> candidates[j].id, score |-> similarities[j]]]
    IN  PySlicePrefix(SortedReverse(media_with_similarity), top_n)

\* lines 105-108: score, pair, sort descending, slice
TopN(user_embedding, valid_media, metric, top_n) ==
    LET similarities ==
            calculate_similarity(user_embedding,
                                 [j \in 1..Len(valid_media) |-> valid_media[j].emb],
                                 metric).similarities
        media_with_similarity ==
            [j \in 1..Len(valid_media) |->
                 [media_id |-> valid_media[j].id, score |-> similarities[j]]]
    IN  PySlicePrefix(SortedReverse(media_with_similarity), top_n)

\* Variant of RowsOf: the clock is read again for the rows of each user.
MutRowsOfRereadClock(user_id, top_n, timestamp) ==
    [r \in 1..Len(top_n) |->
        [user_id |-> user_id,
         recommended_media_id |-> top_n[r].media_id,
         rank |-> r,
         similarity_score |-> top_n[r].score,
         processing_timestamp |-> CURRENT_TIMESTAMP]]

\* lines 110-117: one row per entry of top_n, rank = position
RowsOf(user_id, top_n, timestamp) ==
    [r \in 1..Len(top_n) |->
        [user_id |-> user_id,
         recommended_media_id |-> top_n[r].media_id,
         rank |-> r,
         similarity_score |-> top_n[r].score,
         processing_timestamp |-> timestamp]]

\* Variant of RankUser: the rows of a user are inserted into the table as soon
\* as they are built.
MutRankUserWritesRows ==
    /\ pc = "rank"
    /\ uidx <= Len(user_embeddings_map)
    /\ LET user == user_embeddings_map[uidx]
           rows == RowsOf(user.id,
                          TopN(user.emb, ValidMedia, cfg.similarity_metric,
                               cfg.top_n_to_store),
                          current_timestamp)
       IN  IF Truthy(user.emb) /\ ValidMedia # <<>>
           THEN /\ SupportedMetric(cfg.similarity_metric)
                /\ all_recommendations_to_store' =
                       all_recommendations_to_store \o rows
                /\ table' = [table EXCEPT !.rows = @ \o rows]
           ELSE UNCHANGED <<all_recommendations_to_store, table>>
    /\ uidx' = uidx + 1
    /\ UNCHANGED <<pc, cfg, web, prev, sim, now, users_df, media_df, gen,
                   user_embeddings_map, media_embeddings_map, current_timestamp,
                   out, result>>

\* one iteration of `for user_id, user_embedding in user_embeddings_map.items()`
RankUser ==
    /\ pc = "rank"
    /\ uidx <= Len(user_embeddings_map)
    /\ LET user == user_embeddings_map[uidx]
       IN  IF Truthy(user.emb) /\ ValidMedia # <<>>
           THEN /\ SupportedMetric(cfg.similarity_metric)
                /\ all_recommendations_to_store' =
                       all_recommendations_to_store \o
                       RowsOf(user.id,
                              TopN(user.emb, ValidMedia, cfg.similarity_metric,
                                   cfg.top_n_to_store),
                              current_timestamp)
           ELSE UNCHANGED all_recommendations_to_store
    /\ uidx' = uidx + 1
    /\ UNCHANGED <<pc, cfg, web, prev, sim, now, table, users_df, media_df, gen, user_embeddings_map,
                   media_embeddings_map, current_timestamp, out, result>>

\* calculate_similarity raises ValueError (recommender.py:19), uncaught
RankUserRaises ==
    /\ pc = "rank"
    /\ uidx <= Len(user_embeddings_map)
    /\ Truthy(user_embeddings_map[uidx].emb)
    /\ ValidMedia # <<>>
    /\ ~SupportedMetric(cfg.similarity_metric)
    /\ Ends("raised")
    /\ UNCHANGED <<cfg, web, prev, sim, now, table, users_df, media_df, gen, user_embeddings_map,
                   media_embeddings_map, current_timestamp,
                   all_recommendations_to_store, uidx, out>>

\* the per-user loop is exhausted; line 119
RankDone ==
    /\ pc = "rank"
    /\ uidx > Len(user_embeddings_map)
    /\ pc' = "write"
    /\ out' = out \cup {"Writing recommendations"}
    /\ UNCHANGED <<cfg, web, prev, sim, now, table, users_df, media_df, gen, user_embeddings_map,
                   media_embeddings_map, current_timestamp,
                   all_recommendations_to_store, uidx, result>>

(***************************************************************************)
(* bigquery_utils.write_to_bigquery, then __main__ line 122                *)
(***************************************************************************)
Completed == "Batch recommendation pipeline completed."

\* `if not data: return`
WriteNoData ==
    /\ pc = "write"
    /\ all_recommendations_to_store = <<>>
    /\ out' = out \cup {"No data to write.", Completed}
    /\ Ends("completed")
    /\ UNCHANGED <<cfg, web, prev, sim, now, table, users_df, media_df, gen, user_embeddings_map,
                   media_embeddings_map, current_timestamp,
                   all_recommendations_to_store, uidx>>

\* insert_rows_json returns []: the rows are appended to the table
WriteOk ==
    /\ pc = "write"
    /\ all_recommendations_to_store # <<>>
    /\ table.exists
    /\ table' = [table EXCEPT !.rows = @ \o all_recommendations_to_store]
    /\ out' = out \cup {"Successfully wrote rows", Completed}
    /\ Ends("completed")
    /\ UNCHANGED <<cfg, web, prev, sim, now, users_df, media_df, gen, user_embeddings_map,
                   media_embeddings_map, current_timestamp,
                   all_recommendations_to_store, uidx>>

\* insert_rows_json returns row errors: the request is rejected as a whole
WriteRowErrors ==
    /\ pc = "write"
    /\ all_recommendations_to_store # <<>>
    /\ table.exists
    /\ out' = out \cup {"Errors occurred while inserting rows", Completed}
    /\ Ends("completed")
    /\ UNCHANGED <<cfg, web, prev, sim, now, table, users_df, media_df, gen, user_embeddings_map,
                   media_embeddings_map, current_timestamp,
                   all_recommendations_to_store, uidx>>

\* insert_rows_json raises (no table, or the call fails; the request may or may
\* not have been applied when the response is lost)
WriteException(applied) ==
    /\ pc = "write"
    /\ all_recommendations_to_store # <<>>
    /\ applied => table.exists
    /\ table' = IF applied
                THEN [table EXCEPT !.rows = @ \o all_recommendations_to_store]
                ELSE table
    /\ out' = out \cup {"An error occurred writing to BigQuery", Completed}
    /\ Ends("completed")
    /\ UNCHANGED <<cfg, web, prev, sim, now, users_df, media_df, gen, user_embeddings_map,
                   media_embeddings_map, current_timestamp,
                   all_recommendations_to_store, uidx>>

\* `return embeddings` to a direct caller
EmbedReturnCall ==
    /\ pc = "embed_call"
    /\ gen.i >= Len(gen.texts)
    /\ pc' = "returned"
    /\ UNCHANGED <<cfg, web, prev, sim, now, table, users_df, media_df, gen, user_embeddings_map,
                   media_embeddings_map, current_timestamp,
                   all_recommendations_to_store, uidx, out, result>>

Next ==
    \/ StartRun
    \/ StartRunNoEnv
    \/ StartRunNoClient
    \/ DeleteTableOk
    \/ DeleteTableError
    \/ DeleteTableNotFound
    \/ CreateTableOk
    \/ CreateTableError
    \/ CreateTableExists
    \/ CreateTableRaises
    \/ \E ok \in BOOLEAN : FetchUsers(ok)
    \/ \E ok \in BOOLEAN : FetchMedia(ok)
    \/ \E hasValues \in SUBSET (1..Len(Batch)) : EmbedPredictOk(hasValues)
    \/ EmbedPredictFail
    \/ EmbedChunkEnd
    \/ EmbedReturn
    \/ QueryTimestamp
    \/ QueryTimestampRaises
    \/ RankUser
    \/ RankUserRaises
    \/ RankDone
    \/ WriteNoData
    \/ WriteOk
    \/ WriteRowErrors
    \/ \E applied \in BOOLEAN : WriteException(applied)

Spec == Init /\ [][Next]_vars

(***************************************************************************)
(* The same processes with the history of the last completed process kept, *)
(* to compare a process with an earlier one.                               *)
(***************************************************************************)
\* max_retries at its largest value: a chunk may still fail at every attempt
\* or succeed at any of them
TwiceConfigs == {c \in Configs : c.max_retries = MaxRetriesCfg}

InitTwice ==
    /\ pc = "idle"
    /\ cfg \in TwiceConfigs
    /\ sim = None
    /\ prev = NoPrev(TRUE)
    /\ web = NoWeb
    /\ now = 0
    /\ table = [exists |-> FALSE, rows |-> <<>>]
    /\ users_df = None
    /\ media_df = None
    /\ gen = NoGen
    /\ user_embeddings_map = <<>>
    /\ media_embeddings_map = <<>>
    /\ current_timestamp = None
    /\ all_recommendations_to_store = <<>>
    /\ uidx = 0
    /\ out = {}
    /\ result = "none"

SpecTwice == InitTwice /\ [][Next]_vars

(***************************************************************************)
(* generate_embeddings called on its own, on the first n of CallTexts.     *)
(* top_n_to_store and similarity_metric are not read by it; max_retries    *)
(* may be any integer, negative included.                                  *)
(***************************************************************************)
CallConfigs ==
    [top_n_to_store : {0}, max_retries : -1..MaxRetriesCfg,
     batch_size : BatchSizes, similarity_metric : {"cosine"}]

InitEmbed ==
    /\ pc = "embed_call"
    /\ cfg \in CallConfigs
    /\ sim = None
    /\ prev = NoPrev(FALSE)
    /\ web = NoWeb
    /\ \E n \in 0..MaxTexts : gen = GenEntry(SubSeq(CallTexts, 1, n))
    /\ now = 0
    /\ table = [exists |-> FALSE, rows |-> <<>>]
    /\ users_df = None
    /\ media_df = None
    /\ user_embeddings_map = <<>>
    /\ media_embeddings_map = <<>>
    /\ current_timestamp = None
    /\ all_recommendations_to_store = <<>>
    /\ uidx = 0
    /\ out = {}
    /\ result = "none"

NextEmbed ==
    \/ \E hasValues \in SUBSET (1..Len(Batch)) : EmbedPredictOk(hasValues)
    \/ EmbedPredictFail
    \/ EmbedChunkEnd
    \/ EmbedReturnCall

SpecEmbed == InitEmbed /\ [][NextEmbed]_vars

\* the call runs on: each step of the function is taken eventually (the remote
\* call returns or raises, time.sleep returns)
SpecEmbedFair == SpecEmbed /\ WF_vars(NextEmbed)

(***************************************************************************)
(* calculate_similarity called on its own: a query vector, one to MaxTexts *)
(* candidate vectors and a metric name.                                    *)
(***************************************************************************)
Vectors == {ProviderEmbedding(text) : text \in Range(CallTexts)}

InitSim ==
    /\ pc = "sim_call"
    /\ cfg \in {c \in CallConfigs : c.max_retries = 0 /\ c.batch_size = 1}
    /\ sim \in [user_embedding : Vectors,
                media_embeddings : UNION {[1..n -> Vectors] : n \in 1..MaxTexts},
                metric : Metrics,
                raised : {None},
                similarities : {<<>>}]
    /\ prev = NoPrev(FALSE)
    /\ web = NoWeb
    /\ now = 0
    /\ table = [exists |-> FALSE, rows |-> <<>>]
    /\ users_df = None
    /\ media_df = None
    /\ gen = NoGen
    /\ user_embeddings_map = <<>>
    /\ media_embeddings_map = <<>>
    /\ current_timestamp = None
    /\ all_recommendations_to_store = <<>>
    /\ uidx = 0
    /\ out = {}
    /\ result = "none"

\* recommender.py lines 13-21: the scores are returned, or ValueError is raised
CallSimilarity ==
    /\ pc = "sim_call"
    /\ LET outcome == calculate_similarity(sim.user_embedding,
                                            sim.media_embeddings, sim.metric)
       IN  sim' = [sim EXCEPT !.raised = outcome.raised,
                              !.similarities = outcome.similarities]
    /\ pc' = "sim_returned"
    /\ UNCHANGED <<cfg, web, prev, now, table, users_df, media_df, gen, user_embeddings_map,
                   media_embeddings_map, current_timestamp,
                   all_recommendations_to_store, uidx, out, result>>

NextSim == CallSimilarity

SpecSim == InitSim /\ [][NextSim]_vars

(***************************************************************************)
(* get_top_recommendations called on its own.  A record of media_df is     *)
(* represented by its media_id; the ids are 1..n in frame order, one       *)
(* embedding per record.                                                   *)
(***************************************************************************)
\* recommender.py lines 23-41; the outcome is the list returned or the
\* exception raised by calculate_similarity
get_top_recommendations(user_embedding, media_records, media_embeddings, top_n, similarity_metric) ==
    IF ~Truthy(media_embeddings)
    THEN [raised |-> None, records |-> <<>>]
    ELSE LET outcome == calculate_similarity(user_embedding, media_embeddings,
                                             similarity_metric)
             similarities == outcome.similarities
             media_with_similarity ==
                 [j \in 1..Min(Len(media_records), Len(similarities)) |->
                      [media_id |-> media_records[j], score |-> similarities[j]]]
             sorted_media == SortedReverse(media_with_similarity)
             top_media_ids ==
                 {e.media_id : e \in Range(PySlicePrefix(sorted_media, top_n))}
         IN  IF outcome.raised # None
             THEN [raised |-> outcome.raised, records |-> <<>>]
             ELSE [raised |-> None,
                   records |-> SelectSeq(media_records,
                                         LAMBDA id : id \in top_media_ids)]

InitTop ==
    /\ pc = "top_call"
    /\ cfg \in {c \in CallConfigs : c.max_retries = 0 /\ c.batch_size = 1}
    /\ \E n \in 0..MaxTexts :
          sim \in [user_embedding : Vectors,
                   media_df : {[j \in 1..n |-> j]},
                   media_embeddings : [1..n -> Vectors],
                   top_n : TopNs,
                   metric : Metrics,
                   raised : {None},
                   records : {<<>>}]
    /\ prev = NoPrev(FALSE)
    /\ web = NoWeb
    /\ now = 0
    /\ table = [exists |-> FALSE, rows |-> <<>>]
    /\ users_df = None
    /\ media_df = None
    /\ gen = NoGen
    /\ user_embeddings_map = <<>>
    /\ media_embeddings_map = <<>>
    /\ current_timestamp = None
    /\ all_recommendations_to_store = <<>>
    /\ uidx = 0
    /\ out = {}
    /\ result = "none"

CallTopRecommendations ==
    /\ pc = "top_call"
    /\ LET outcome == get_top_recommendations(sim.user_embedding, sim.media_df,
                                               sim.media_embeddings, sim.top_n,
                                               sim.metric)
       IN  sim' = [sim EXCEPT !.raised = outcome.raised,
                              !.records = outcome.records]
    /\ pc' = "top_returned"
    /\ UNCHANGED <<cfg, web, prev, now, table, users_df, media_df, gen,
                   user_embeddings_map, media_embeddings_map, current_timestamp,
                   all_recommendations_to_store, uidx, out, result>>

NextTop == CallTopRecommendations

SpecTop == InitTop /\ [][NextTop]_vars

(***************************************************************************)
(* vehicle-ai-concierge/app.py: POST /chat requests of the users of the    *)
(* web app.  The server handles each request in a thread of its own, which *)
(* runs invoke_agent_and_process_response in its own event loop; all the   *)
(* threads share the module globals _created_sessions and session_service. *)
(* A request is at "none" (not received), "check" (line 38), "create"      *)
(* (line 40), "add" (line 43), "run" (line 55), "done" or "error".         *)
(***************************************************************************)
WebUsers == {"a", "b"}
Requests == 1..MaxRequests

\* f"session_for_{user_id}"
SessionFor(user_id) == <<"session_for_", user_id>>

SessionIds == {SessionFor(u) : u \in WebUsers}

InitChat ==
    /\ pc = "serving"
    /\ cfg \in {c \in CallConfigs : c.max_retries = 0 /\ c.batch_size = 1}
    /\ sim = None
    /\ prev = NoPrev(FALSE)
    /\ web = [_created_sessions |-> {},
              create_calls |-> [sid \in SessionIds |-> 0],
              req |-> [r \in Requests |->
                          [at |-> "none", user_id |-> None, session_id |-> None]]]
    /\ now = 0
    /\ table = [exists |-> FALSE, rows |-> <<>>]
    /\ users_df = None
    /\ media_df = None
    /\ gen = NoGen
    /\ user_embeddings_map = <<>>
    /\ media_embeddings_map = <<>>
    /\ current_timestamp = None
    /\ all_recommendations_to_store = <<>>
    /\ uidx = 0
    /\ out = {}
    /\ result = "none"

\* the variables of the batch job, which the web app does not touch
batch_vars ==
    <<pc, cfg, sim, prev, now, table, users_df, media_df, gen,
      user_embeddings_map, media_embeddings_map, current_timestamp,
      all_recommendations_to_store, uidx, out, result>>

\* chat lines 107-117 and get_or_create_session line 37: a request with a
\* message arrives for the user of its cookie
ChatArrives(r, user_id) ==
    /\ web.req[r].at = "none"
    /\ web' = [web EXCEPT !.req[r] = [at |-> "check", user_id |-> user_id,
                                       session_id |-> SessionFor(user_id)]]
    /\ UNCHANGED batch_vars

\* chat lines 107-109: a request without a message is answered with 400
ChatEmptyMessage(r) ==
    /\ web.req[r].at = "none"
    /\ web' = [web EXCEPT !.req[r].at = "done"]
    /\ UNCHANGED batch_vars

\* line 38: `if session_id not in _created_sessions`
CheckCreated(r) ==
    /\ web.req[r].at = "check"
    /\ web' = [web EXCEPT !.req[r].at =
                   IF web.req[r].session_id \notin web._created_sessions
                   THEN "create" ELSE "run"]
    /\ UNCHANGED batch_vars

\* lines 40-42: session_service.create_session is invoked and returns
CreateSession(r) ==
    /\ web.req[r].at = "create"
    /\ web' = [web EXCEPT !.create_calls[web.req[r].session_id] = @ + 1,
                          !.req[r].at = "add"]
    /\ UNCHANGED batch_vars

\* lines 40-42: session_service.create_session is invoked and raises; the
\* exception reaches chat line 120 and the request is answered with 500
CreateSessionRaises(r) ==
    /\ web.req[r].at = "create"
    /\ web' = [web EXCEPT !.create_calls[web.req[r].session_id] = @ + 1,
                          !.req[r].at = "error"]
    /\ UNCHANGED batch_vars

\* lines 43-44: `_created_sessions.add(session_id)`, `return session_id`
AddCreated(r) ==
    /\ web.req[r].at = "add"
    /\ web' = [web EXCEPT !._created_sessions = @ \cup {web.req[r].session_id},
                          !.req[r].at = "run"]
    /\ UNCHANGED batch_vars

\* lines 50-94 and chat line 118: the agent runs in the session and the
\* request is answered
RunAgent(r) ==
    /\ web.req[r].at = "run"
    /\ web' = [web EXCEPT !.req[r].at = "done"]
    /\ UNCHANGED batch_vars

NextChat ==
    \/ \E r \in Requests, user_id \in WebUsers : ChatArrives(r, user_id)
    \/ \E r \in Requests : ChatEmptyMessage(r)
    \/ \E r \in Requests : CheckCreated(r)
    \/ \E r \in Requests : CreateSession(r)
    \/ \E r \in Requests : CreateSessionRaises(r)
    \/ \E r \in Requests : AddCreated(r)
    \/ \E r \in Requests : RunAgent(r)

SpecChat == InitChat /\ [][NextChat]_vars


(***************************************************************************)
(* Properties                                                              *)
(***************************************************************************)
\* the per-user loop of the running or last process has finished
RankingFinished == pc = "write" \/ (pc = "idle" /\ result = "completed")

RowsOfUser(rows, user_id) == SelectSeq(rows, LAMBDA r : r.user_id = user_id)

\* the rows of the table that carry the timestamp of the current process
RowsOfThisRun ==
    SelectSeq(table.rows, LAMBDA r : r.processing_timestamp.run = now)

\* position of a media id in the candidate input order
CandidatePos(media_id) ==
    CHOOSE j \in DOMAIN ValidMedia : ValidMedia[j].id = media_id

\* score of one candidate for a user vector under the configured metric
ScoreOf(user_embedding, media_embedding) ==
    calculate_similarity(user_embedding, <<media_embedding>>,
                         cfg.similarity_metric).similarities[1]

\* C1: every identifier that is associated with a vector is associated with
\* the vector the provider produced for that entity's own text.
C1_OwnVector ==
    /\ \A j \in DOMAIN user_embeddings_map :
          user_embeddings_map[j].emb =
              ProviderEmbedding(prepare_user_text_for_embedding(user_embeddings_map[j].id))
    /\ \A j \in DOMAIN media_embeddings_map :
          media_embeddings_map[j].emb =
              ProviderEmbedding(prepare_media_text_for_embedding(media_embeddings_map[j].id))

\* C2: once the ranking of a run has finished, every user with a valid
\* embedding has rows whose ranks are exactly 1..k, each once, where
\* k = min(top_n_to_store, number of media with a valid embedding).
C2_RanksExactlyOneToK ==
    RankingFinished =>
        \A j \in DOMAIN user_embeddings_map :
            LET rs == RowsOfUser(all_recommendations_to_store,
                                 user_embeddings_map[j].id)
                k == Min(cfg.top_n_to_store, Len(ValidMedia))
            IN  Truthy(user_embeddings_map[j].emb) =>
                    /\ {rs[a].rank : a \in DOMAIN rs} = 1..k
                    /\ Len(rs) = Cardinality(1..k)

\* C3: within the rows of one run, for rows of the same user the score does
\* not increase with the rank.
C3_ScoreNonIncreasingInRank ==
    \A a, b \in DOMAIN all_recommendations_to_store :
        LET ra == all_recommendations_to_store[a]
            rb == all_recommendations_to_store[b]
        IN  (ra.user_id = rb.user_id /\ ra.rank < rb.rank)
                => ra.similarity_score >= rb.similarity_score

\* a user has two rows of different scores whose media are ranked against
\* their input order (the sort had to move them)
C3_Witness ==
    \E a, b \in DOMAIN all_recommendations_to_store :
        LET ra == all_recommendations_to_store[a]
            rb == all_recommendations_to_store[b]
        IN  /\ ra.user_id = rb.user_id
            /\ ra.rank < rb.rank
            /\ ra.similarity_score > rb.similarity_score
            /\ CandidatePos(ra.recommended_media_id) >
                   CandidatePos(rb.recommended_media_id)

\* C4: of two candidates of a user with equal scores, the one earlier in the
\* candidate input order gets the smaller rank, and it is the one kept when
\* the truncation to top-N cuts between them.
C4_StableUnderTies ==
    \A j \in DOMAIN user_embeddings_map :
        LET user == user_embeddings_map[j]
            rs == RowsOfUser(all_recommendations_to_store, user.id)
        IN  /\ \A a, b \in DOMAIN rs :
                  (/\ rs[a].similarity_score = rs[b].similarity_score
                   /\ CandidatePos(rs[a].recommended_media_id) <
                          CandidatePos(rs[b].recommended_media_id))
                      => rs[a].rank < rs[b].rank
            /\ \A a \in DOMAIN rs : \A c \in DOMAIN ValidMedia :
                  (/\ c < CandidatePos(rs[a].recommended_media_id)
                   /\ ScoreOf(user.emb, ValidMedia[c].emb) = rs[a].similarity_score)
                      => \E b \in DOMAIN rs :
                             rs[b].recommended_media_id = ValidMedia[c].id

\* a user's top-N kept the first of two tied candidates and cut the second
C4_Witness ==
    \E j \in DOMAIN user_embeddings_map :
        LET user == user_embeddings_map[j]
            rs == RowsOfUser(all_recommendations_to_store, user.id)
        IN  /\ cfg.top_n_to_store = 1
            /\ Len(rs) = 1
            /\ Len(ValidMedia) = 2
            /\ rs[1].recommended_media_id = ValidMedia[1].id
            /\ ScoreOf(user.emb, ValidMedia[2].emb) = rs[1].similarity_score

\* C5: the top-N step emits exactly min(n, number of candidates) entries for a
\* ranked user, and every emitted candidate scores at least as high as every
\* valid candidate that was not emitted for that user.
C5_TopNCountAndBest ==
    RankingFinished =>
        \A j \in DOMAIN user_embeddings_map :
            LET user == user_embeddings_map[j]
                rs == RowsOfUser(all_recommendations_to_store, user.id)
                emitted == {rs[a].recommended_media_id : a \in DOMAIN rs}
            IN  (Truthy(user.emb) /\ ValidMedia # <<>>) =>
                    /\ Len(rs) = Min(cfg.top_n_to_store, Len(ValidMedia))
                    /\ \A a \in DOMAIN rs : \A c \in DOMAIN ValidMedia :
                          ValidMedia[c].id \notin emitted =>
                              rs[a].similarity_score >=
                                  ScoreOf(user.emb, ValidMedia[c].emb)

\* C6: with top_n_to_store <= 0 the ranking step returns nothing, so a run
\* emits no recommendation row.
C6_NonPositiveTopNEmitsNothing ==
    cfg.top_n_to_store <= 0 => all_recommendations_to_store = <<>>

\* C7: once a run has completed, the destination table holds exactly the rows
\* that run generated.
C7_FullBatchReplace ==
    (pc = "idle" /\ result = "completed") =>
        table.rows = all_recommendations_to_store

\* the delete or the recreate of the destination failed in the current process
ClearFailed ==
    out \cap {"Error deleting table", "Error creating table"} # {}

\* C8: in a run whose delete or recreate of the destination failed, no row is
\* written to the destination.
C8_NoWriteAfterFailedClear ==
    ClearFailed => RowsOfThisRun = <<>>

\* the write of the rows failed in the current process
WriteFailed ==
    out \cap {"An error occurred writing to BigQuery",
              "Errors occurred while inserting rows"} # {}

\* C9: a run whose write failed does not report completion, and the table
\* holds none or all of its rows.
C9_WriteFailureFailsRun ==
    (pc = "idle" /\ WriteFailed) =>
        /\ result # "completed"
        /\ Completed \notin out
        /\ RowsOfThisRun \in {<<>>, all_recommendations_to_store}

\* the while loop of the current chunk has been left
ChunkFinished == InEmbed /\ gen.i < Len(gen.texts) /\ ~WhileCondition

C11_BackoffBetweenAttemptsOnly ==
    ChunkFinished =>
        /\ \A k \in DOMAIN gen.sleeps : gen.sleeps[k] = Pow2(k)
        /\ gen.calls >= 1 => Len(gen.sleeps) = gen.calls - 1

\* the concatenation of a sequence of sequences
RECURSIVE Flatten(_)
Flatten(seqs) ==
    IF seqs = <<>> THEN <<>>
    ELSE Flatten(SubSeq(seqs, 1, Len(seqs) - 1)) \o seqs[Len(seqs)]

\* C12: the chunks formed by generate_embeddings are consecutive pieces of the
\* input in input order, each of 1..batch_size texts; the remote calls carry
\* the current chunk; at the return every text lies in exactly one chunk.
C12_ChunksPartitionTexts ==
    (InEmbed \/ pc = "returned") =>
        /\ \A b \in DOMAIN gen.batches :
              Len(gen.batches[b]) >= 1 /\ Len(gen.batches[b]) <= cfg.batch_size
        /\ Flatten(gen.batches) =
               SubSeq(gen.texts, 1, Min(Len(gen.texts), gen.i + cfg.batch_size))
        /\ gen.i < Len(gen.texts) => Batch = gen.batches[Len(gen.batches)]
        /\ gen.i >= Len(gen.texts) => Flatten(gen.batches) = gen.texts

\* three texts were cut into a chunk of two and a chunk of one
C12_Witness ==
    /\ pc = "returned"
    /\ Len(gen.texts) = 3
    /\ Len(gen.batches) = 2
    /\ Len(gen.batches[1]) = 2
    /\ Len(gen.batches[2]) = 1

ObtainedMedia ==
    {m \in Range(media_df) :
        \E j \in DOMAIN media_embeddings_map :
            media_embeddings_map[j].emb =
                ProviderEmbedding(prepare_media_text_for_embedding(m))}

ObtainedUsers ==
    {u \in Range(users_df) :
        \E j \in DOMAIN user_embeddings_map :
            user_embeddings_map[j].emb =
                ProviderEmbedding(prepare_user_text_for_embedding(u))}

\* C14: when the ranking of a run has finished and exactly one of the fetched
\* media items did not obtain an embedding, every row of the run names one of
\* the media items that did obtain one.
C14_FailedMediaExcluded ==
    (RankingFinished /\ Cardinality(ObtainedMedia) = Len(media_df) - 1) =>
        \A a \in DOMAIN all_recommendations_to_store :
            all_recommendations_to_store[a].recommended_media_id \in ObtainedMedia

\* C15: when the ranking of a run has finished, a user whose text obtained no
\* embedding has no row, and a user whose text obtained one has rows if some
\* media item has a valid embedding and top_n_to_store >= 1.
C15_FailedUserDiscarded ==
    RankingFinished =>
        \A j \in DOMAIN users_df :
            LET rs == RowsOfUser(all_recommendations_to_store, users_df[j])
            IN  /\ users_df[j] \notin ObtainedUsers => rs = <<>>
                /\ (/\ users_df[j] \in ObtainedUsers
                    /\ ValidMedia # <<>>
                    /\ cfg.top_n_to_store >= 1) => rs # <<>>

\* C16: all rows a run has produced carry the one timestamp the run obtained
\* before its per-user loop, and the rows one run has written to the table
\* carry one identical timestamp.
C16_OneTimestampPerRun ==
    /\ \A a \in DOMAIN all_recommendations_to_store :
          all_recommendations_to_store[a].processing_timestamp = current_timestamp
    /\ \A a, b \in DOMAIN table.rows :
          table.rows[a].processing_timestamp.run = table.rows[b].processing_timestamp.run
              => table.rows[a].processing_timestamp = table.rows[b].processing_timestamp

\* a run has written rows of two users, produced in different loop iterations
C16_Witness ==
    /\ pc = "idle" /\ result = "completed"
    /\ \E a, b \in DOMAIN table.rows :
          /\ table.rows[a].user_id # table.rows[b].user_id
          /\ table.rows[a].processing_timestamp.run = now
          /\ table.rows[b].processing_timestamp.run = now

\* C17: a call of calculate_similarity with a metric name other than
\* "cosine" and "euclidean" ends in ValueError: it returns no scores, in
\* particular not the scores of one of the two metrics.
C17_UnsupportedMetricRaises ==
    (pc = "sim_returned" /\ sim.metric \notin {"cosine", "euclidean"}) =>
        /\ sim.raised = ValueError
        /\ sim.similarities = <<>>

\* a call with an unknown metric name has ended
C17_Witness ==
    /\ pc = "sim_returned"
    /\ sim.metric = "manhattan"
    /\ Len(sim.media_embeddings) >= 2

\* C18: a process configured with an unknown similarity metric ends as failed
\* before it does anything: it never deletes the table, never enters
\* generate_embeddings or a later step, never writes a row and never ends as
\* completed.
C18_UnknownMetricFailsFirst ==
    ~SupportedMetric(cfg.similarity_metric) =>
        /\ "Table deleted" \notin out
        /\ pc \notin {"embed_users", "embed_media", "timestamp", "rank", "write"}
        /\ table.rows = <<>>
        /\ result # "completed"

\* C19: a process that has finished its per-user loop with no media item
\* holding a valid embedding does not end as completed.
C19_NoValidMediaAborts ==
    (pc = "idle" /\ result = "completed") => ValidMedia # <<>>

\* a row without its processing_timestamp
WithoutTimestamp(rows) ==
    [a \in DOMAIN rows |->
        [user_id |-> rows[a].user_id,
         recommended_media_id |-> rows[a].recommended_media_id,
         rank |-> rows[a].rank,
         similarity_score |-> rows[a].similarity_score]]

PermutationsOf(n) ==
    {p \in [1..n -> 1..n] : \A a, b \in 1..n : a # b => p[a] # p[b]}

\* C21: for "cosine" and "euclidean" a call returns one score per candidate,
\* the score at position j is the score the candidate at j gets when it is
\* scored alone, and the call on a permuted candidate list returns the same
\* scores permuted in the same way.
C21_OneScorePerCandidateEquivariant ==
    (pc = "sim_returned" /\ sim.metric \in {"cosine", "euclidean"}) =>
        /\ sim.raised = None
        /\ Len(sim.similarities) = Len(sim.media_embeddings)
        /\ \A j \in DOMAIN sim.media_embeddings :
              sim.similarities[j] =
                  calculate_similarity(sim.user_embedding,
                                       <<sim.media_embeddings[j]>>,
                                       sim.metric).similarities[1]
        /\ \A p \in PermutationsOf(Len(sim.media_embeddings)) :
              calculate_similarity(sim.user_embedding,
                                   [j \in DOMAIN sim.media_embeddings |->
                                        sim.media_embeddings[p[j]]],
                                   sim.metric).similarities
                  = [j \in DOMAIN sim.media_embeddings |-> sim.similarities[p[j]]]

\* a call has returned three scores that are not all equal
C21_Witness ==
    /\ pc = "sim_returned"
    /\ sim.metric = "euclidean"
    /\ Len(sim.similarities) = 3
    /\ sim.similarities[1] # sim.similarities[3]

\* C22: under "euclidean", for every user vector q and candidates a, b of
\* the run with distance(q, a) < distance(q, b): the score of a is greater
\* than the score of b, and if the user has a row for b then the user has a
\* row for a of a smaller rank.
C22_EuclideanCloserRanksFirst ==
    cfg.similarity_metric = "euclidean" =>
        \A j \in DOMAIN user_embeddings_map :
            \A a, b \in DOMAIN ValidMedia :
                LET q == user_embeddings_map[j].emb
                    rs == RowsOfUser(all_recommendations_to_store,
                                     user_embeddings_map[j].id)
                IN  (Truthy(q) /\ EuclideanDistance(q, ValidMedia[a].emb)
                                      < EuclideanDistance(q, ValidMedia[b].emb)) =>
                        /\ ScoreOf(q, ValidMedia[a].emb) > ScoreOf(q, ValidMedia[b].emb)
                        /\ \A rb \in DOMAIN rs :
                              rs[rb].recommended_media_id = ValidMedia[b].id =>
                                  \E ra \in DOMAIN rs :
                                      /\ rs[ra].recommended_media_id = ValidMedia[a].id
                                      /\ rs[ra].rank < rs[rb].rank
                                      /\ rs[ra].similarity_score > rs[rb].similarity_score

\* under "euclidean" a user has two rows, and the closer candidate, which comes
\* later in the candidate order, has rank 1
C22_Witness ==
    /\ cfg.similarity_metric = "euclidean"
    /\ \E a, b \in DOMAIN all_recommendations_to_store :
          LET ra == all_recommendations_to_store[a]
              rb == all_recommendations_to_store[b]
          IN  /\ ra.user_id = rb.user_id
              /\ ra.rank = 1 /\ rb.rank = 2
              /\ ra.similarity_score > rb.similarity_score
              /\ CandidatePos(ra.recommended_media_id)
                     > CandidatePos(rb.recommended_media_id)

\* C23 as claimed: every process that has ended as completed has written rows
\* to the table (one write of rows in any run).
C23_EveryRunWritesRows ==
    (pc = "idle" /\ result = "completed") => RowsOfThisRun # <<>>

\* C23: a step that adds rows to the table is the last step of its process,
\* taken from the write position after the per-user loop is exhausted and with
\* no generate_embeddings call running, and it adds all the rows of the run at
\* once; a write that reports success has added them.  (A process writes rows
\* at most once, at its end.)
C23_RowsWrittenAtMostOnceAtEnd ==
    [][/\ (table'.rows # table.rows /\ table'.rows # <<>>) =>
            /\ pc = "write" /\ pc' = "idle"
            /\ uidx > Len(user_embeddings_map)
            /\ gen = NoGen
            /\ all_recommendations_to_store # <<>>
            /\ table'.rows = table.rows \o all_recommendations_to_store
       /\ (pc = "write" /\ "Successfully wrote rows" \in out') =>
            table'.rows = table.rows \o all_recommendations_to_store]_vars

\* a process has ended after one successful write of the rows of two users
C23_Witness ==
    /\ pc = "idle" /\ result = "completed"
    /\ "Successfully wrote rows" \in out
    /\ RowsOfThisRun = all_recommendations_to_store
    /\ Len(all_recommendations_to_store) >= 2
    /\ uidx = 3

\* C24: for every pattern of failing remote calls a direct call of
\* generate_embeddings returns; it never makes more remote calls than the
\* number of chunks formed times the attempts allowed for a chunk, and when it
\* has returned every chunk of the input has been formed and tried in turn,
\* the chunks after an exhausted one included.
C24_ReturnsWithBoundedCalls ==
    /\ <>(pc = "returned")
    /\ [](/\ gen.total <= Len(gen.batches) * Max(cfg.max_retries, 0)
          /\ pc = "returned" =>
                /\ Flatten(gen.batches) = gen.texts
                /\ \A c \in gen.failed :
                      \A d \in 0..(Len(gen.texts) - 1) :
                          (d > c /\ d % cfg.batch_size = 0 /\ cfg.max_retries >= 1)
                              => \E b \in DOMAIN gen.batches :
                                     gen.batches[b] = PySlice(gen.texts, d, cfg.batch_size))

\* the call has returned after its first chunk exhausted two attempts and a
\* later chunk was called
C24_Witness ==
    /\ pc = "returned"
    /\ 0 \in gen.failed
    /\ cfg.max_retries = 2
    /\ Len(gen.batches) >= 2
    /\ gen.total >= 3

\* a start-up or fetch failure was reported by the process
StartFailed ==
    out \cap {"Please set the PROJECT_ID and LOCATION",
              "Error authenticating to BigQuery",
              "Error fetching data from users",
              "Error fetching data from media"} # {}

\* C25: a process that reported a missing PROJECT_ID/LOCATION, a failed
\* client creation or a failed fetch of users or media has ended with a
\* non-zero exit status after a message.
C25_FailurePathsExitNonZero ==
    (pc = "idle" /\ StartFailed) =>
        /\ ExitStatus(result) # 0
        /\ result # "completed"

\* C26: a chunk starts with its own retry counter at 0 whatever happened in
\* the chunks before it, the counter counts the failed calls of the current
\* chunk only, a chunk left without success has had max(max_retries, 0)
\* calls of its own, and after a successful call for a chunk no further call
\* is made for that chunk.
C26_RetryBudgetPerChunk ==
    /\ [](InEmbed =>
            /\ gen.calls = 0 => (gen.retries = 0 /\ ~gen.success)
            /\ gen.retries = gen.calls - (IF gen.success THEN 1 ELSE 0)
            /\ (ChunkFinished /\ ~gen.success) =>
                   gen.calls = Max(cfg.max_retries, 0))
    /\ [][(InEmbed /\ gen.success /\ gen'.calls # gen.calls) =>
             (gen'.i = gen.i + cfg.batch_size /\ gen'.calls = 0
              /\ gen'.total = gen.total)]_vars

\* after a first chunk that exhausted its attempts, a later chunk has failed
\* once and then succeeded at its second attempt
C26_Witness ==
    /\ ChunkFinished
    /\ gen.i > 0
    /\ 0 \in gen.failed
    /\ gen.success
    /\ gen.calls = 2

\* the position of the input text a returned vector belongs to
TextIndex(vector) ==
    CHOOSE k \in DOMAIN gen.texts : ProviderEmbedding(gen.texts[k]) = vector

FetchFailed ==
    out \cap {"Error fetching data from users",
              "Error fetching data from media"} # {}

\* C28: a process reads its inputs only after delete_table and create_table
\* have run, and from a successful delete until the end of a process that
\* exits on a failed fetch the table holds no rows.
C28_ClearedBeforeInputsRead ==
    /\ (pc \in {"fetch_users", "fetch_media"} \/ FetchFailed
        \/ users_df # None \/ media_df # None) =>
          /\ out \cap {"Table deleted", "Error deleting table",
                       "Table does not exist"} # {}
          /\ out \cap {"Table created", "Error creating table",
                       "Table already exists"} # {}
    /\ ("Table deleted" \in out
        /\ (pc \in {"create", "fetch_users", "fetch_media"}
            \/ (pc = "idle" /\ result = "exit" /\ FetchFailed))) =>
          table.rows = <<>>

\* a second process has deleted the table of the first and has exited on a
\* failed fetch of media
C28_Witness ==
    /\ pc = "idle" /\ result = "exit"
    /\ now = 2
    /\ "Table deleted" \in out
    /\ "Error fetching data from media" \in out
    /\ table.rows = <<>>

\* the score of the record with a media_id in a get_top_recommendations call
TopScore(media_id) ==
    calculate_similarity(sim.user_embedding, <<sim.media_embeddings[media_id]>>,
                         sim.metric).similarities[1]

\* C29: a call of get_top_recommendations with top_n >= 0 that returns gives
\* [] for no media embeddings; otherwise it gives at most top_n records, each
\* record once, such that no record left out scores higher than a record
\* returned, and the records are listed in descending order of their score.
C29_TopRecordsDescending ==
    (pc = "top_returned" /\ sim.raised = None /\ sim.top_n >= 0) =>
        /\ sim.media_embeddings = <<>> => sim.records = <<>>
        /\ Len(sim.records) = Min(sim.top_n, Len(sim.media_df))
        /\ \A a, b \in DOMAIN sim.records : a # b => sim.records[a] # sim.records[b]
        /\ \A id \in Range(sim.media_df) : \A a \in DOMAIN sim.records :
              id \notin Range(sim.records) => TopScore(id) <= TopScore(sim.records[a])
        /\ \A a, b \in DOMAIN sim.records :
              a < b => TopScore(sim.records[a]) >= TopScore(sim.records[b])

\* C30: create_session is invoked at most once for a session id, exactly
\* once when a request of the user has got past get_or_create_session, and
\* every request of a user uses the session id "session_for_<user_id>".
C30_SessionCreatedOnce ==
    /\ \A sid \in SessionIds : web.create_calls[sid] <= 1
    /\ \A r \in Requests :
          web.req[r].at \in {"run"} =>
              /\ web.req[r].session_id = SessionFor(web.req[r].user_id)
              /\ web.create_calls[web.req[r].session_id] = 1

=============================================================================
